---- MODULE Spec2Model ----
(***************************************************************************)
(* Model of match_pubchem_data (src/pubchem_matcher.py): a single pass     *)
(* over the lines of an MSP file that matches every blank-line terminated  *)
(* spectrum against a PubChem table, inserts two count lines before the    *)
(* record's "Num Peaks" line and accumulates run statistics.               *)
(*                                                                         *)
(* Text is a sequence of tokens.  A token is a chunk of characters that    *)
(* the program never looks inside ("InChIKey", ":", " ", "K1", "\n").      *)
(* A line of the input file ends with the token "\n".                      *)
(***************************************************************************)
EXTENDS Integers, Sequences, FiniteSets, TLC

\* ------------------------------------------------------------------ bounds
\* number of lines the input file may hold
MaxLines == 4
\* number of rows the PubChem table may hold
MaxRows == 2

\* ------------------------------------------------------------ str methods
NL == "\n"
SP == " "
COLON == ":"

\* whitespace as str.strip() sees it
IsSpace(t) == t \in {SP, NL}

RECURSIVE LStrip(_)
LStrip(s) == IF s # <<>> /\ IsSpace(Head(s)) THEN LStrip(Tail(s)) ELSE s

RECURSIVE RStrip(_)
RStrip(s) ==
    IF s # <<>> /\ IsSpace(s[Len(s)]) THEN RStrip(SubSeq(s, 1, Len(s) - 1)) ELSE s

\* str.strip()
Strip(s) == RStrip(LStrip(s))

\* str.startswith(p)
StartsWith(s, p) == Len(s) >= Len(p) /\ SubSeq(s, 1, Len(p)) = p

\* str.lower(), token by token
LowerTok(t) ==
    CASE t \in {"InChIKey", "Inchikey", "INCHIKEY"} -> "inchikey"
      [] t \in {"Smiles", "SMILES"} -> "smiles"
      [] t \in {"Num Peaks", "NUM PEAKS"} -> "num peaks"
      [] t = "Name" -> "name"
      [] OTHER -> t

Lower(s) == [i \in DOMAIN s |-> LowerTok(s[i])]

\* position of the first ":" of s, 0 when there is none
RECURSIVE FirstColon(_, _)
FirstColon(s, i) ==
    IF i > Len(s) THEN 0
    ELSE IF s[i] = COLON THEN i
    ELSE FirstColon(s, i + 1)

\* line.split(":", 1)[1]: everything after the first colon
AfterFirstColon(s) == SubSeq(s, FirstColon(s, 1) + 1, Len(s))

\* "".join(list of str): what writelines puts on the file
RECURSIVE Join(_)
Join(ss) == IF ss = <<>> THEN <<>> ELSE Head(ss) \o Join(Tail(ss))

\* decimal digits of a non-negative integer, as str(n) prints them
DigitTok(d) ==
    CASE d = 0 -> "0" [] d = 1 -> "1" [] d = 2 -> "2" [] d = 3 -> "3" [] d = 4 -> "4"
      [] d = 5 -> "5" [] d = 6 -> "6" [] d = 7 -> "7" [] d = 8 -> "8" [] d = 9 -> "9"

RECURSIVE IntStr(_)
IntStr(n) == IF n < 10 THEN <<DigitTok(n)>> ELSE IntStr(n \div 10) \o <<DigitTok(n % 10)>>

\* ------------------------------------------------------------- input data
\* the lines an input file is made of
Lines ==
    { <<NL>>,
      <<SP, NL>>,
      <<"InChIKey", COLON, SP, "K1", NL>>,
      <<"Inchikey", COLON, SP, "K2", NL>>,
      <<"INCHIKEY", COLON, SP, "K1", NL>>,
      <<"Smiles", COLON, SP, "S1", NL>>,
      <<"SMILES", COLON, SP, "S1", NL>>,
      <<"Smiles", COLON, NL>>,
      <<"Num Peaks", COLON, SP, "2", NL>>,
      <<SP, "NUM PEAKS", COLON, SP, "3", NL>> }

\* the columns the program reads from the PubChem table
AllColumns == {"FirstBlock", "SMILES", "PubMed_Count", "Patent_Count"}

\* the rows a PubChem table is made of
Rows ==
    { [FirstBlock |-> <<"K1">>, SMILES |-> <<"S1">>, PubMed_Count |-> 12, Patent_Count |-> 3],
      [FirstBlock |-> <<"K1">>, SMILES |-> <<"S2">>, PubMed_Count |-> 5, Patent_Count |-> 0],
      [FirstBlock |-> <<"K2">>, SMILES |-> <<"S1">>, PubMed_Count |-> 7, Patent_Count |-> 40] }

\* tables of at most MaxRows rows, in file order, no row listed twice
Tables ==
    UNION { { t \in [1..n -> Rows] : \A i, j \in 1..n : t[i] = t[j] => i = j } :
            n \in 0..MaxRows }

\* the header sets a CSV file may come with: complete, or one column short
Headers == {AllColumns} \cup { AllColumns \ {c} : c \in AllColumns }

\* a table as read from a file with header h: every row keeps the columns of h
Project(t, h) == [i \in DOMAIN t |-> [c \in h |-> t[i][c]]]

\* ---------------------------------------------------------- pandas pieces
\* the rows of df whose index label (column FirstBlock) is key, in file order
LabelRows(df, key) ==
    LET Hit(r) == r["FirstBlock"] = key IN SelectSeq(df, Hit)

\* key in pubchem_df.index
InIndex(df, key) == LabelRows(df, key) # <<>>

\* pubchem_df.loc[key]: the row when one row carries the label, a DataFrame of
\* all of them when several do
Loc(df, key) ==
    LET rs == LabelRows(df, key)
    IN  [kind |-> IF Len(rs) = 1 THEN "Series" ELSE "DataFrame", rows |-> rs]

\* pubchem_df[pubchem_df["SMILES"] == smiles]
SmilesRows(df, s) ==
    LET Hit(r) == r["SMILES"] = s IN SelectSeq(df, Hit)

\* the last row of a selection
ILocLast(rs) == [kind |-> "Series", rows |-> <<rs[Len(rs)]>>]

\* match.iloc[0]
ILoc0(rs) == [kind |-> "Series", rows |-> <<rs[1]>>]

\* pubchem_row[col]: a scalar of a row, a Series (one value per row) of a DataFrame
Cell(row, col) ==
    [kind |-> IF row.kind = "Series" THEN "scalar" ELSE "Series",
     label |-> [i \in DOMAIN row.rows |-> row.rows[i]["FirstBlock"]],
     name |-> col,
     vals |-> [i \in DOMAIN row.rows |-> row.rows[i][col]]]

\* the lines "label    value\n" of a printed Series
RECURSIVE SeriesBody(_, _)
SeriesBody(labels, vals) ==
    IF vals = <<>> THEN <<>>
    ELSE Head(labels) \o <<SP>> \o IntStr(Head(vals)) \o <<NL>>
         \o SeriesBody(Tail(labels), Tail(vals))

\* format(cell, ""): the digits of a scalar, the printed form of a Series
Format(cell) ==
    IF cell.kind = "scalar" THEN IntStr(cell.vals[1])
    ELSE <<"FirstBlock", NL>> \o SeriesBody(cell.label, cell.vals)
         \o <<"Name", COLON, SP, cell.name, ",", SP, "dtype", COLON, SP, "int64">>

\* ------------------------------------------------------------------ state
VARIABLES
    pc,             \* "start", "reading", "done" (returned) or "raised"
    exc,            \* the exception that ended the run, "" when none
    columns,        \* header of the PubChem CSV file
    pubchem_df,     \* rows of the PubChem table, in file order
    files,          \* fi and fo: "unopened", "open" or "closed"
    fi,             \* the lines read from the input file so far
    fo,             \* the text written to the output file
    spectrum_block, \* list of str collected for the current record
    inchi_key,      \* <<>> for None, <<text>> for a str
    smiles,         \* <<>> for None, <<text>> for a str
    stats           \* the stats dict

vars == <<pc, exc, columns, pubchem_df, files, fi, fo, spectrum_block, inchi_key,
          smiles, stats>>

None == <<>>

\* bool(x) of an Optional[str]
Truthy(x) == x # None /\ x[1] # <<>>

InitStats ==
    [total_spectra |-> 0, matched_by_inchikey |-> 0, matched_by_smiles |-> 0,
     total_matched |-> 0, spectra_with_inchikey |-> 0, spectra_with_smiles |-> 0,
     spectra_with_both |-> 0, spectra_with_neither |-> 0,
     pubmed_counts |-> <<>>, patent_counts |-> <<>>]

\* the state before line 8, for a PubChem file with header h
InitWith(h) ==
    /\ pc = "start"
    /\ exc = ""
    /\ columns = h
    /\ pubchem_df \in { Project(t, columns) : t \in Tables }
    /\ files = "unopened"
    /\ fi = <<>>
    /\ fo = <<>>
    /\ spectrum_block = <<>>
    /\ inchi_key = None
    /\ smiles = None
    /\ stats = InitStats

\* a PubChem file that has every column the program reads
Init == InitWith(AllColumns)

\* a PubChem file that may lack one of them
InitSchema == \E h \in Headers : InitWith(h)

\* a PubChem file that lacks one of them
InitMissing == \E h \in Headers \ {AllColumns} : InitWith(h)

\* --------------------------------------------------- the loop body, by part
\* lines 35-38: the identifiers after a line has been looked at
IsInchikeyLine(line) ==
    StartsWith(line, <<"Inchikey", COLON>>) \/ StartsWith(line, <<"InChIKey", COLON>>)

IsSmilesLine(line) == StartsWith(line, <<"Smiles", COLON>>)

HeaderValue(line) == <<Strip(AfterFirstColon(line))>>

NextInchikey(line, ik) == IF IsInchikeyLine(line) THEN HeaderValue(line) ELSE ik

NextSmiles(line, sm) ==
    IF ~IsInchikeyLine(line) /\ IsSmilesLine(line) THEN HeaderValue(line) ELSE sm

\* a test that takes only the empty line for the end of a record
IsEmptyLine(line) == line = <<NL>>

\* line 40: the line ends a record
IsTerminator(line) == Strip(line) = <<>>

Bump(st, field) == [st EXCEPT ![field] = @ + 1]

\* the buckets with the InChIKey test first
PresenceBucketInchikeyFirst(ik, sm) ==
    IF Truthy(ik) THEN "spectra_with_inchikey"
    ELSE IF Truthy(sm) THEN "spectra_with_smiles"
    ELSE "spectra_with_neither"

\* lines 44-54: the identifier-availability bucket of a record
PresenceBucket(ik, sm) ==
    IF Truthy(ik) /\ Truthy(sm) THEN "spectra_with_both"
    ELSE IF Truthy(ik) THEN "spectra_with_inchikey"
    ELSE IF Truthy(sm) THEN "spectra_with_smiles"
    ELSE "spectra_with_neither"

\* lines 41-54
CountRecord(st, ik, sm) == Bump(Bump(st, "total_spectra"), PresenceBucket(ik, sm))

NoRow == [kind |-> "None", rows |-> <<>>]

\* matching that looks at the SMILES only when the record has no InChIKey
MatchRowNoFallThrough(df, cols, ik, sm) ==
    IF Truthy(ik)
    THEN IF InIndex(df, ik[1])
         THEN [exc |-> "", method |-> "inchikey", row |-> Loc(df, ik[1])]
         ELSE [exc |-> "", method |-> "none", row |-> NoRow]
    ELSE IF Truthy(sm) /\ SmilesRows(df, sm[1]) # <<>>
    THEN [exc |-> "", method |-> "smiles", row |-> ILoc0(SmilesRows(df, sm[1]))]
    ELSE [exc |-> "", method |-> "none", row |-> NoRow]

\* lines 57-66: the row matched and the method that matched it; the SMILES
\* scan of a table without a SMILES column raises KeyError
MatchRow(df, cols, ik, sm) ==
    IF Truthy(ik) /\ InIndex(df, ik[1])
    THEN [exc |-> "", method |-> "inchikey", row |-> Loc(df, ik[1])]
    ELSE IF Truthy(sm)
    THEN IF "SMILES" \notin cols
         THEN [exc |-> "KeyError", method |-> "none", row |-> NoRow]
         ELSE IF SmilesRows(df, sm[1]) # <<>>
              THEN [exc |-> "", method |-> "smiles", row |-> ILoc0(SmilesRows(df, sm[1]))]
              ELSE [exc |-> "", method |-> "none", row |-> NoRow]
    ELSE [exc |-> "", method |-> "none", row |-> NoRow]

\* counting a record matched by InChIKey under both methods
CountMethodTwice(st, method) ==
    IF method = "inchikey" THEN Bump(Bump(st, "matched_by_inchikey"), "matched_by_smiles")
    ELSE IF method = "smiles" THEN Bump(st, "matched_by_smiles")
    ELSE st

\* lines 61 and 66
CountMethod(st, method) ==
    IF method = "inchikey" THEN Bump(st, "matched_by_inchikey")
    ELSE IF method = "smiles" THEN Bump(st, "matched_by_smiles")
    ELSE st

\* lines 69-71: each statement in turn, up to the first that raises
CountMatch(st, cols, row) ==
    LET s1 == Bump(st, "total_matched")
        s2 == [s1 EXCEPT !.pubmed_counts = Append(@, Cell(row, "PubMed_Count"))]
        s3 == [s2 EXCEPT !.patent_counts = Append(@, Cell(row, "Patent_Count"))]
    IN  IF "PubMed_Count" \notin cols THEN [exc |-> "KeyError", stats |-> s1]
        ELSE IF "Patent_Count" \notin cols THEN [exc |-> "KeyError", stats |-> s2]
        ELSE [exc |-> "", stats |-> s3]

\* line 74
IsNumPeaks(line_content) == StartsWith(Lower(line_content), <<"num peaks">>)

\* index of the first element of block from i on that line 74 accepts, 0 if none
RECURSIVE FirstNumPeaks(_, _)
FirstNumPeaks(block, i) ==
    IF i > Len(block) THEN 0
    ELSE IF IsNumPeaks(block[i]) THEN i
    ELSE FirstNumPeaks(block, i + 1)

\* lines 77 and 81: the two f-strings
PubMedLine(row) == <<"PubMed_Count", COLON, SP>> \o Format(Cell(row, "PubMed_Count")) \o <<NL>>

PatentLine(row) == <<"Patent_Count", COLON, SP>> \o Format(Cell(row, "Patent_Count")) \o <<NL>>

\* list.insert(idx, x), idx counted from 1
Insert(list, idx, x) == SubSeq(list, 1, idx - 1) \o <<x>> \o SubSeq(list, idx, Len(list))

\* an annotation that goes to the end of a block without a num peaks line
AnnotateOrAppend(block, row) ==
    LET i == FirstNumPeaks(block, 1)
    IN  IF i = 0 THEN block \o <<PubMedLine(row), PatentLine(row)>>
        ELSE Insert(Insert(block, i, PubMedLine(row)), i + 1, PatentLine(row))

\* lines 73-83: the block after the loop over its elements (idx is 0-based in
\* the source: element idx there is element idx + 1 here)
Annotate(block, row) ==
    LET i == FirstNumPeaks(block, 1)
    IN  IF i = 0 THEN block
        ELSE Insert(Insert(block, i, PubMedLine(row)), i + 1, PatentLine(row))

\* a flush that writes matched records only
FlushMatchedOnly(df, cols, block, ik, sm, st) ==
    LET s1 == CountRecord(st, ik, sm)
        m  == MatchRow(df, cols, ik, sm)
        s2 == CountMethod(s1, m.method)
        c  == CountMatch(s2, cols, m.row)
    IN  IF m.exc # "" THEN [exc |-> m.exc, stats |-> s1, out |-> <<>>]
        ELSE IF m.method = "none" THEN [exc |-> "", stats |-> s2, out |-> <<>>]
        ELSE IF c.exc # "" THEN [exc |-> c.exc, stats |-> c.stats, out |-> <<>>]
        ELSE [exc |-> "", stats |-> c.stats, out |-> Join(Annotate(block, m.row))]

\* lines 41-85 for a complete block: the stats, the exception raised (if any)
\* and the text handed to fo.writelines
Flush(df, cols, block, ik, sm, st) ==
    LET s1 == CountRecord(st, ik, sm)
        m  == MatchRow(df, cols, ik, sm)
        s2 == CountMethod(s1, m.method)
        c  == CountMatch(s2, cols, m.row)
    IN  IF m.exc # "" THEN [exc |-> m.exc, stats |-> s1, out |-> <<>>]
        ELSE IF m.method = "none" THEN [exc |-> "", stats |-> s2, out |-> Join(block)]
        ELSE IF c.exc # "" THEN [exc |-> c.exc, stats |-> c.stats, out |-> <<>>]
        ELSE [exc |-> "", stats |-> c.stats, out |-> Join(Annotate(block, m.row))]

\* lines 87-88: the identifier a new record starts with
KeepIdentifier(x) == x

ResetIdentifier(x) == None

\* lines 98-135: how the report ends, given the stats.  Line 99 divides by
\* total_spectra.  Lines 115-130 summarise the count lists; what pandas does
\* there with a list that holds Series objects is left open: the call returns
\* or raises.
ReportOutcomes(st) ==
    IF st.total_spectra = 0 THEN {[pc |-> "raised", exc |-> "ZeroDivisionError"]}
    ELSE IF \A i \in DOMAIN st.pubmed_counts : st.pubmed_counts[i].kind = "scalar"
    THEN {[pc |-> "done", exc |-> ""]}
    ELSE {[pc |-> "done", exc |-> ""], [pc |-> "raised", exc |-> "TypeError"]}

\* files that stay as they are when the block is left
WithoutExit(f) == f

\* lines 26-27: leaving the with statement, by the end of the block or by an
\* exception, closes fi and fo
WithExit(f) == "closed"

\* ---------------------------------------------------------------- actions
\* lines 8-31: read_csv, set_index("FirstBlock") (KeyError without that column),
\* then both files are opened
Load ==
    /\ pc = "start"
    /\ IF "FirstBlock" \in columns
       THEN /\ pc' = "reading"
            /\ exc' = ""
            /\ files' = "open"
       ELSE /\ pc' = "raised"
            /\ exc' = "KeyError"
            /\ files' = "unopened"
    /\ UNCHANGED <<columns, pubchem_df, fi, fo, spectrum_block, inchi_key, smiles, stats>>

\* lines 33-88: one pass of the loop body, for the next line of the file.  An
\* exception leaves the with statement, which closes both files.
ReadLine(line) ==
    /\ pc = "reading"
    /\ Len(fi) < MaxLines
    /\ fi' = Append(fi, line)
    /\ LET block == Append(spectrum_block, line)
           ik    == NextInchikey(line, inchi_key)
           sm    == NextSmiles(line, smiles)
           f     == Flush(pubchem_df, columns, block, ik, sm, stats)
       IN  IF ~IsTerminator(line)
           THEN /\ spectrum_block' = block
                /\ inchi_key' = ik
                /\ smiles' = sm
                /\ UNCHANGED <<pc, exc, files, fo, stats>>
           ELSE IF f.exc # ""
           THEN /\ pc' = "raised"
                /\ exc' = f.exc
                /\ files' = WithExit(files)
                /\ stats' = f.stats
                /\ spectrum_block' = block
                /\ inchi_key' = ik
                /\ smiles' = sm
                /\ UNCHANGED fo
           ELSE /\ fo' = fo \o f.out
                /\ stats' = f.stats
                /\ spectrum_block' = <<>>
                /\ inchi_key' = ResetIdentifier(ik)
                /\ smiles' = ResetIdentifier(sm)
                /\ UNCHANGED <<pc, exc, files>>
    /\ UNCHANGED <<columns, pubchem_df>>

\* a run that emits the unfinished block when the file ends
FinishFlushing ==
    /\ pc = "reading"
    /\ files' = WithExit(files)
    /\ LET f == Flush(pubchem_df, columns, spectrum_block, inchi_key, smiles, stats)
       IN  /\ fo' = IF spectrum_block # <<>> /\ f.exc = "" THEN fo \o f.out ELSE fo
           /\ stats' = IF spectrum_block # <<>> THEN f.stats ELSE stats
           /\ \E r \in ReportOutcomes(stats') : pc' = r.pc /\ exc' = r.exc
    /\ UNCHANGED <<columns, pubchem_df, fi, spectrum_block, inchi_key, smiles>>

\* lines 88-135: the file is exhausted (whatever spectrum_block holds is left
\* behind), the with statement closes both files, the report is printed and
\* stats returned
Finish ==
    /\ pc = "reading"
    /\ files' = WithExit(files)
    /\ \E r \in ReportOutcomes(stats) : pc' = r.pc /\ exc' = r.exc
    /\ UNCHANGED <<columns, pubchem_df, fi, fo, spectrum_block, inchi_key, smiles, stats>>

Next ==
    \/ Load
    \/ \E line \in Lines : ReadLine(line)
    \/ Finish

Spec == Init /\ [][Next]_vars

SpecSchema == InitSchema /\ [][Next]_vars

SpecMissing == InitMissing /\ [][Next]_vars

\* ------------------------------------------------- vocabulary of the claims
\* an identifier that is present and not the empty string
NonEmpty(x) == x # <<>> /\ x[1] # <<>>

\* a line made of white space only
IsBlankLine(l) == \A i \in DOMAIN l : l[i] \in {SP, NL}

\* the step read a line that ended a record
RecordTerminated == stats'.total_spectra = stats.total_spectra + 1

\* the last line read
LastLine(f) == f[Len(f)]

\* the lines of the file read so far that follow its last blank line
RECURSIVE OwnLines(_)
OwnLines(f) ==
    IF f = <<>> \/ IsBlankLine(LastLine(f)) THEN <<>>
    ELSE Append(OwnLines(SubSeq(f, 1, Len(f) - 1)), LastLine(f))

\* the value of the last line of ls that starts with one of the headers hs
\* followed by a colon, <<>> when no line does
RECURSIVE LastHeaderValue(_, _)
LastHeaderValue(ls, hs) ==
    IF ls = <<>> THEN <<>>
    ELSE LET l == LastLine(ls)
         IN  IF Len(l) >= 2 /\ l[1] \in hs /\ l[2] = COLON
             THEN <<Strip(SubSeq(l, 3, Len(l)))>>
             ELSE LastHeaderValue(SubSeq(ls, 1, Len(ls) - 1), hs)

\* some row of the table has value v in column c
SomeRowHas(c, v) ==
    c \in columns /\ \E i \in DOMAIN pubchem_df : pubchem_df[i][c] = v

\* C1: a terminated record is matched by InChIKey when its InChIKey is
\* non-empty and labels a row of the table; otherwise by SMILES when its SMILES
\* is non-empty and equals the SMILES of a row; otherwise not at all.
C1_MatchPriority ==
    [][RecordTerminated =>
        LET primary   == NonEmpty(inchi_key) /\ SomeRowHas("FirstBlock", inchi_key[1])
            secondary == ~primary /\ NonEmpty(smiles) /\ SomeRowHas("SMILES", smiles[1])
        IN  /\ stats'.matched_by_inchikey =
                   stats.matched_by_inchikey + (IF primary THEN 1 ELSE 0)
            /\ stats'.matched_by_smiles =
                   stats.matched_by_smiles + (IF secondary THEN 1 ELSE 0)]_vars

\* a record with both identifiers, whose InChIKey labels no row, was matched by
\* its SMILES
C1_Witness ==
    /\ stats.total_spectra = 1
    /\ stats.spectra_with_both = 1
    /\ stats.matched_by_smiles = 1
    /\ stats.matched_by_inchikey = 0
    /\ pubchem_df # <<>>

\* C3: every terminated record adds one to exactly one of the four
\* identifier-availability counters, "both" first, whatever the match says, and
\* the four counters always add up to total_spectra.
C3_PresenceBuckets ==
    /\ [](stats.spectra_with_both + stats.spectra_with_inchikey
            + stats.spectra_with_smiles + stats.spectra_with_neither
          = stats.total_spectra)
    /\ [][RecordTerminated =>
            LET bucket ==
                    IF NonEmpty(inchi_key) /\ NonEmpty(smiles) THEN "spectra_with_both"
                    ELSE IF NonEmpty(inchi_key) THEN "spectra_with_inchikey"
                    ELSE IF NonEmpty(smiles) THEN "spectra_with_smiles"
                    ELSE "spectra_with_neither"
            IN  \A b \in {"spectra_with_both", "spectra_with_inchikey",
                          "spectra_with_smiles", "spectra_with_neither"} :
                    stats'[b] = stats[b] + (IF b = bucket THEN 1 ELSE 0)]_vars

\* a matched record with both identifiers and a record with neither have been
\* counted
C3_Witness ==
    /\ stats.total_spectra = 2
    /\ stats.spectra_with_both = 1
    /\ stats.spectra_with_neither = 1
    /\ stats.total_matched = 1

\* C6: while a record is collected, and so when its blank line arrives, each
\* identifier is the value of the last header line among the record's own
\* lines, and None when there is none, whatever earlier records carried.
C6_OwnIdentifiers ==
    pc = "reading" =>
        /\ spectrum_block = OwnLines(fi)
        /\ inchi_key = LastHeaderValue(OwnLines(fi), {"Inchikey", "InChIKey"})
        /\ smiles = LastHeaderValue(OwnLines(fi), {"Smiles"})

\* a record with both identifiers was flushed and the next record, which has
\* lines of its own but no header line, has neither identifier
C6_Witness ==
    /\ pc = "reading"
    /\ stats.total_spectra = 1
    /\ stats.spectra_with_both = 1
    /\ spectrum_block # <<>>
    /\ inchi_key = None
    /\ smiles = None

\* C10: a step that reads a non-blank line, and the step that ends the run,
\* write nothing and count nothing: the lines after the last blank line never
\* reach the output or the statistics.
C10_TrailingBlockDropped ==
    [][(fi' = fi \/ ~IsBlankLine(LastLine(fi'))) => (fo' = fo /\ stats' = stats)]_vars

\* the run returned with an unfinished record that has an InChIKey of the table
\* and a Num Peaks line, after a record that was written
C10_Witness ==
    /\ pc = "done"
    /\ fo # <<>>
    /\ inchi_key = <<<<"K1">>>>
    /\ SomeRowHas("FirstBlock", <<"K1">>)
    /\ \E i \in DOMAIN spectrum_block : spectrum_block[i][1] = "Num Peaks"

\* the lines of a text, each with its "\n"
RECURSIVE SplitLines(_, _)
SplitLines(text, line) ==
    IF text = <<>> THEN (IF line = <<>> THEN <<>> ELSE <<line>>)
    ELSE IF Head(text) = NL THEN <<Append(line, NL)>> \o SplitLines(Tail(text), <<>>)
    ELSE SplitLines(Tail(text), Append(line, Head(text)))

\* the line "<key>: <n>"
CountLine(key, n) == <<key, COLON, SP>> \o IntStr(n) \o <<NL>>

\* a line that starts with "PubMed_Count:" or "Patent_Count:"
IsCountLine(l) == Len(l) >= 2 /\ l[1] \in {"PubMed_Count", "Patent_Count"} /\ l[2] = COLON

\* index of the first line of ls from i on that starts with "Num Peaks:", 0 if none
RECURSIVE FirstNumPeaksLine(_, _)
FirstNumPeaksLine(ls, i) ==
    IF i > Len(ls) THEN 0
    ELSE IF Len(ls[i]) >= 2 /\ ls[i][1] = "Num Peaks" /\ ls[i][2] = COLON THEN i
    ELSE FirstNumPeaksLine(ls, i + 1)

\* the step matched the record it terminated and wrote it
RecordMatched ==
    /\ RecordTerminated
    /\ stats'.total_matched = stats.total_matched + 1
    /\ pc' = "reading"

\* C2: a matched record with a line "Num Peaks: <k>" is written as its own lines
\* with "PubMed_Count: <n>" and "Patent_Count: <m>", the counts of a row of the
\* table, put before the first such line, and nothing else changed.
C2_InsertionPlacement ==
    [][RecordMatched =>
        LET rec == Append(spectrum_block, LastLine(fi'))
            i   == FirstNumPeaksLine(rec, 1)
        IN  i # 0 =>
              \E k \in DOMAIN pubchem_df :
                 fo' = fo \o Join(SubSeq(rec, 1, i - 1))
                          \o CountLine("PubMed_Count", pubchem_df[k]["PubMed_Count"])
                          \o CountLine("Patent_Count", pubchem_df[k]["Patent_Count"])
                          \o Join(SubSeq(rec, i, Len(rec)))]_vars

\* C4: a line whose trimmed form starts with "inchikey:" in any letter case
\* sets the InChIKey of the record to the trimmed text after the first colon,
\* and a line that starts with "smiles:" in any letter case sets the SMILES.
C4_HeadersAnyCase ==
    [][(pc = "reading" /\ fi' # fi) =>
        LET l == LastLine(fi')
            t == Lower(Strip(l))
        IN  /\ StartsWith(t, <<"inchikey", COLON>>) =>
                 inchi_key' = <<Strip(AfterFirstColon(l))>>
            /\ StartsWith(t, <<"smiles", COLON>>) =>
                 smiles' = <<Strip(AfterFirstColon(l))>>]_vars

\* C5: when the run has read a file that ends with a blank line, the output is
\* the input with count lines added: without its count lines it is the input,
\* line for line, and it has at most two count lines per matched record.
C5_OutputIsInputPlusCounts ==
    (files = "closed" /\ exc # "KeyError" /\ fi # <<>> /\ IsBlankLine(LastLine(fi))) =>
        LET out     == SplitLines(fo, <<>>)
            IsIn(l) == ~IsCountLine(l)
        IN  /\ SelectSeq(out, IsIn) = fi
            /\ Len(SelectSeq(out, IsCountLine)) <= 2 * stats.total_matched

\* C7: a run that processed no record returns its stats; the report does not
\* raise.
C7_EmptyRunReturns ==
    (files = "closed" /\ stats.total_spectra = 0) => (pc = "done" /\ exc = "")

\* C8: with a column missing from the table the run fails before any record is
\* processed: when the KeyError is raised no record has been counted and
\* nothing has been written.
C8_SchemaErrorBeforeRecords ==
    (columns # AllColumns /\ pc = "raised" /\ exc = "KeyError") =>
        (stats.total_spectra = 0 /\ fo = <<>>)

\* the last row of the table labelled key
LastLabelled(key) ==
    CHOOSE k \in DOMAIN pubchem_df :
        /\ pubchem_df[k]["FirstBlock"] = key
        /\ \A j \in DOMAIN pubchem_df : pubchem_df[j]["FirstBlock"] = key => j <= k

\* C9: a record matched by an InChIKey that labels several rows adds to the
\* statistics the counts of the last of them, one number each.
C9_LastRowWins ==
    [][(RecordMatched /\ stats'.matched_by_inchikey = stats.matched_by_inchikey + 1) =>
        LET row == pubchem_df[LastLabelled(inchi_key[1])]
            pm  == stats'.pubmed_counts[Len(stats'.pubmed_counts)]
            pt  == stats'.patent_counts[Len(stats'.patent_counts)]
        IN  /\ pm.kind = "scalar" /\ pm.vals = <<row["PubMed_Count"]>>
            /\ pt.kind = "scalar" /\ pt.vals = <<row["Patent_Count"]>>]_vars

\* index of the first line of ls from i on whose trimmed, lower-cased form
\* starts with "num peaks", 0 if none
RECURSIVE FirstAnchor(_, _)
FirstAnchor(ls, i) ==
    IF i > Len(ls) THEN 0
    ELSE IF StartsWith(Lower(Strip(ls[i])), <<"num peaks">>) THEN i
    ELSE FirstAnchor(ls, i + 1)

\* C11: the anchor of a matched record is its first line whose trimmed,
\* lower-cased form starts with "num peaks": the record is written with
\* "PubMed_Count: ..." put right before that line, the lines before and from
\* the anchor on unchanged.
C11_AnchorTrimmedAnyCase ==
    [][RecordMatched =>
        LET rec    == Append(spectrum_block, LastLine(fi'))
            i      == FirstAnchor(rec, 1)
            before == fo \o Join(SubSeq(rec, 1, i - 1))
            after  == Join(SubSeq(rec, i, Len(rec)))
        IN  i # 0 =>
              /\ Len(fo') > Len(before) + Len(after)
              /\ SubSeq(fo', 1, Len(before)) = before
              /\ fo'[Len(before) + 1] = "PubMed_Count"
              /\ SubSeq(fo', Len(fo') - Len(after) + 1, Len(fo')) = after]_vars

\* a record has no line whose trimmed, lower-cased form starts with "num peaks"
NoAnchor(rec) == FirstAnchor(rec, 1) = 0

\* C12: a matched record without a num peaks line is written exactly as it was
\* read, and is still counted as matched, with one entry added to each of the
\* two count lists.
C12_NoAnchorUnmodified ==
    [][(RecordMatched /\ NoAnchor(Append(spectrum_block, LastLine(fi')))) =>
        /\ fo' = fo \o Join(Append(spectrum_block, LastLine(fi')))
        /\ stats'.total_matched = stats.total_matched + 1
        /\ Len(stats'.pubmed_counts) = Len(stats.pubmed_counts) + 1
        /\ Len(stats'.patent_counts) = Len(stats.patent_counts) + 1]_vars

\* a record of an InChIKey line and a blank line was matched, counted and
\* written as read
C12_Witness ==
    /\ pc = "reading"
    /\ Len(fi) = 2
    /\ stats.total_matched = 1
    /\ Len(stats.pubmed_counts) = 1
    /\ NoAnchor(fi)
    /\ fo = Join(fi)

\* C13: a terminated record adds one to at most one of matched_by_inchikey and
\* matched_by_smiles, and one to total_matched exactly when it does, so that
\* total_matched = matched_by_inchikey + matched_by_smiles <= total_spectra.
C13_OneMethodPerRecord ==
    /\ [](/\ stats.total_matched = stats.matched_by_inchikey + stats.matched_by_smiles
          /\ stats.total_matched <= stats.total_spectra)
    /\ [][RecordTerminated =>
            LET byKey    == stats'.matched_by_inchikey - stats.matched_by_inchikey
                bySmiles == stats'.matched_by_smiles - stats.matched_by_smiles
            IN  /\ <<byKey, bySmiles>> \in {<<0, 0>>, <<1, 0>>, <<0, 1>>}
                /\ stats'.total_matched = stats.total_matched + byKey + bySmiles]_vars

\* two records have been counted, one matched by its InChIKey and one by its
\* SMILES
C13_Witness ==
    /\ stats.matched_by_inchikey = 1
    /\ stats.matched_by_smiles = 1
    /\ stats.total_matched = 2
    /\ stats.total_spectra = 2

\* C14: a terminated record with neither identifier (no header line, or header
\* lines with empty values) is written as it was read, and adds one to
\* total_spectra and to spectra_with_neither and changes nothing else in stats.
C14_NeitherPassesThrough ==
    [][(RecordTerminated /\ ~NonEmpty(inchi_key) /\ ~NonEmpty(smiles)) =>
        /\ fo' = fo \o Join(Append(spectrum_block, LastLine(fi')))
        /\ stats' = [stats EXCEPT !.total_spectra = @ + 1,
                                  !.spectra_with_neither = @ + 1]]_vars

\* a record of a "Smiles:" line without a value, a Num Peaks line and a blank
\* line has been counted and written
C14_Witness ==
    /\ Len(fi) = 3
    /\ fi[1] = <<"Smiles", COLON, NL>>
    /\ fi[2][1] = "Num Peaks"
    /\ stats.total_spectra = 1
    /\ stats.spectra_with_neither = 1
    /\ fo = Join(fi)
    /\ pubchem_df # <<>>

\* C15: once the run has ended, by return or by an exception, the input and
\* output files are not left open.
C15_FilesClosedOnExit == pc \in {"done", "raised"} => files # "open"

\* a KeyError was raised while a record was matched, after another record had
\* been written, and both files are closed
C15_Witness ==
    /\ pc = "raised"
    /\ exc = "KeyError"
    /\ stats.total_spectra = 2
    /\ fo # <<>>
    /\ files = "closed"

\* the first row of the table whose SMILES is s
FirstWithSmiles(s) ==
    CHOOSE k \in DOMAIN pubchem_df :
        /\ pubchem_df[k]["SMILES"] = s
        /\ \A j \in DOMAIN pubchem_df : pubchem_df[j]["SMILES"] = s => k <= j

\* C16: a record matched by its SMILES takes its counts, in the statistics and
\* in the two lines put before its "Num Peaks:" line, from the first row of
\* the table whose SMILES equals the record's.
C16_FirstSmilesRowWins ==
    [][(RecordMatched /\ stats'.matched_by_smiles = stats.matched_by_smiles + 1) =>
        LET row == pubchem_df[FirstWithSmiles(smiles[1])]
            pm  == stats'.pubmed_counts[Len(stats'.pubmed_counts)]
            pt  == stats'.patent_counts[Len(stats'.patent_counts)]
            rec == Append(spectrum_block, LastLine(fi'))
            i   == FirstNumPeaksLine(rec, 1)
        IN  /\ pm.kind = "scalar" /\ pm.vals = <<row["PubMed_Count"]>>
            /\ pt.kind = "scalar" /\ pt.vals = <<row["Patent_Count"]>>
            /\ i # 0 =>
                 fo' = fo \o Join(SubSeq(rec, 1, i - 1))
                          \o CountLine("PubMed_Count", row["PubMed_Count"])
                          \o CountLine("Patent_Count", row["Patent_Count"])
                          \o Join(SubSeq(rec, i, Len(rec)))]_vars

\* a record with a Num Peaks line was matched by its SMILES against a table in
\* which two rows with different counts have that SMILES
C16_Witness ==
    /\ stats.matched_by_smiles = 1
    /\ Len(fi) = 3
    /\ fi[2][1] = "Num Peaks"
    /\ Len(pubchem_df) = 2
    /\ pubchem_df[1]["SMILES"] = <<"S1">>
    /\ pubchem_df[2]["SMILES"] = <<"S1">>
    /\ pubchem_df[1]["PubMed_Count"] # pubchem_df[2]["PubMed_Count"]

\* C17: at a record boundary the two count lists are as long as total_matched
\* says, and their i-th entries are the PubMed and patent count of one row of
\* the table, the row the i-th matched record was matched to.
C17_CountSequences ==
    pc = "reading" =>
        /\ Len(stats.pubmed_counts) = stats.total_matched
        /\ Len(stats.patent_counts) = stats.total_matched
        /\ \A i \in DOMAIN stats.pubmed_counts :
              \E k \in DOMAIN pubchem_df :
                 /\ stats.pubmed_counts[i].kind = "scalar"
                 /\ stats.pubmed_counts[i].vals = <<pubchem_df[k]["PubMed_Count"]>>
                 /\ stats.patent_counts[i].kind = "scalar"
                 /\ stats.patent_counts[i].vals = <<pubchem_df[k]["Patent_Count"]>>

\* the number of blank lines among ls
RECURSIVE NumBlank(_)
NumBlank(ls) ==
    IF ls = <<>> THEN 0
    ELSE NumBlank(Tail(ls)) + (IF IsBlankLine(Head(ls)) THEN 1 ELSE 0)

\* C18: total_spectra is the number of blank lines read, white-space-only
\* lines included, and a blank line read while no line is collected is written
\* as a record of its own and counted in total_spectra and spectra_with_neither.
C18_EveryBlankLineTerminates ==
    /\ [](stats.total_spectra = NumBlank(fi))
    /\ [][(pc = "reading" /\ fi' # fi /\ IsBlankLine(LastLine(fi'))
             /\ (fi = <<>> \/ IsBlankLine(LastLine(fi)))) =>
            /\ fo' = fo \o LastLine(fi')
            /\ stats' = [stats EXCEPT !.total_spectra = @ + 1,
                                      !.spectra_with_neither = @ + 1]]_vars

\* a white-space-only line at the start of the file and the empty line after
\* it were each written and counted as a record
C18_Witness ==
    /\ Len(fi) >= 2
    /\ fi[1] = <<SP, NL>>
    /\ fi[2] = <<NL>>
    /\ stats.total_spectra = 2
    /\ stats.spectra_with_neither = 2
    /\ fo = <<SP, NL, NL>>

====
